---- MODULE Spec2Model ----
(***************************************************************************)
(* RXH: the Master / Server / Listener task hierarchy, the connection      *)
(* permit semaphore and the Notifier / Subscription graceful-drain         *)
(* protocol (src/src/task/master.rs, src/src/task/server.rs,                *)
(* src/src/sync/notify.rs).                                                 *)
(*                                                                         *)
(* Every task (the Master, each Server, each connection handler) is a      *)
(* process with a program counter.  A step is one access to shared state   *)
(* (semaphore, watch channel, broadcast channel, mpsc channel, socket), so *)
(* the interleavings are those of the multi-threaded runtime.              *)
(*                                                                         *)
(* The service of a connection has sections of its own: the weighted       *)
(* round robin scheduler (src/src/sched/wrr.rs, src/src/sync/ring.rs), the  *)
(* dispatch of a request (src/src/service/mod.rs, proxy.rs), the Forwarded  *)
(* header (src/src/http/request.rs) and the static files                   *)
(* (src/src/service/files.rs), each with its specification.  The           *)
(* deserialisation of a server table (src/src/config/deser.rs) has one too. *)
(***************************************************************************)
EXTENDS Integers, FiniteSets, Sequences, TLC

\* ---------------------------------------------------------------- bounds
\* Servers a Master is built from.
NumServers == 2
\* Connections accepted in one run of a Server used on its own.
MaxAccepts == 2
\* Connections accepted in one run of a Master, all servers together.
MasterAccepts == 1
\* Largest max_connections a server is configured with.
MaxConnections == 2
\* Requests the clients send in one run, all connections together.
MaxRequests == 1

\* Backends of one Forward action.
MaxBackends == 2
\* Largest weight of a backend.
MaxWeight == 2
\* Tasks that call next_server on the same scheduler.
NumCallers == 2
\* Calls to next_server in one run.
MaxCalls == 9
\* Patterns of one server.
MaxPatterns == 2
\* Length of a URI.
MaxUriLen == 2
\* Proxies a request passes through.
MaxProxies == 3
\* Header lines named Forwarded in a request.
MaxLines == 2
\* Segments of a request path.
MaxSegments == 2
\* Keys of a server table.
MaxKeys == 4
\* Elements of an array in a server table.
MaxItems == 1
\* Width of usize in bits, scaled down from 64 (32 on 32-bit targets) so
\* that the counter of the Ring can be driven round.
UsizeBits == 3

\* -------------------------------------------------------------- constants
\* Capacity of the acknowledgements channel: mpsc::channel(1).
AckCapacity == 1

SrvIds == 1..NumServers
ConnIds == 1..(IF MaxAccepts > MasterAccepts THEN MaxAccepts ELSE MasterAccepts)

VARIABLES
    master,   \* the Master task
    srv,      \* srv[s]: the Server task s, its Listener, Notifier and semaphore
    hnd,      \* hnd[s][c]: the handler task of the c-th connection of server s
    requests, \* requests the clients have sent so far
    sched,    \* a WeightedRoundRobin scheduler and the tasks calling it
    call,     \* one execution of Rxh::call
    fwd,      \* a request on its way through a chain of proxies
    xfer,     \* one execution of files::transfer
    deser     \* one execution of ServerVisitor::visit_map

\* What the task hierarchy does not touch.
svcVars == <<sched, call, fwd, xfer, deser>>

vars == <<master, srv, hnd, requests, sched, call, fwd, xfer, deser>>

\* ------------------------------------------------------- enum State
Starting == <<"Starting", 0>>
Listening == <<"Listening", 0>>
MaxConnectionsReached(n) == <<"MaxConnectionsReached", n>>
PendingConnections(n) == <<"ShuttingDown.PendingConnections", n>>
Done == <<"ShuttingDown.Done", 0>>

IsShuttingDown(st) == st[1] \in {"ShuttingDown.PendingConnections", "ShuttingDown.Done"}

\* ------------------------------------------------------- initial values
\* A connection slot no connection has been accepted for.
NoHandler ==
    [pc |-> "none", req |-> "idle",
     permit |-> FALSE, sub |-> FALSE, msg |-> FALSE,
     pre |-> FALSE, late |-> FALSE, goneAfterSend |-> FALSE,
     badGateway |-> FALSE, tunnel |-> "none"]

\* A server the configuration names, before Server::init.
NoServer(n) ==
    [pc |-> "none", state |-> Starting, maxConn |-> n, permits |-> 0,
     loopPermit |-> FALSE, notifyAgain |-> FALSE, listener |-> "none",
     trigger |-> "pending", rx |-> FALSE, listenResult |-> "none", early |-> FALSE,
     sendResult |-> "none", numTasks |-> 0,
     ackSender |-> FALSE, ackRx |-> FALSE, ackBuf |-> 0, acks |-> 0,
     notifTx |-> FALSE, config |-> "none", result |-> "none", accepted |-> 0]

\* Server::init: state Starting, socket bound and listening, a fresh Notifier,
\* a shutdown future that never completes, a semaphore of max_connections.
ServerInit(n) ==
    [NoServer(n) EXCEPT !.pc = "init", !.listener = "open", !.permits = n,
        !.ackSender = TRUE, !.ackRx = TRUE, !.notifTx = TRUE, !.config = "owned"]

\* No scheduler.
NoSched ==
    [pc |-> "off", weights |-> <<>>, cycle |-> <<>>, next |-> 0,
     caller |-> [t \in 1..NumCallers |-> [pc |-> "idle", idx |-> 0]],
     calls |-> 0, overlap |-> FALSE, order |-> <<>>, returned |-> <<>>]

\* No request being dispatched, no request on its way, no file asked for,
\* no table being deserialised.
NoCall == [pc |-> "off"]
NoFwd == [pc |-> "off"]
NoXfer == [pc |-> "off"]
NoDeser == [pc |-> "off"]

\* No Master: a Server used on its own.
NoMaster ==
    [pc |-> "none", idx |-> 1, registered |-> FALSE, future |-> "pending",
     errBranch |-> TRUE, joined |-> {}, firstError |-> "None", sent |-> 0,
     result |-> "none", bindable |-> [s \in SrvIds |-> TRUE]]

\* ------------------------------------------------------------ helpers
Handlers(s) == {c \in ConnIds : hnd[s][c].pc # "none"}
LiveSubscriptions(s) == {c \in ConnIds : hnd[s][c].sub}
PermitHolders(s) == {c \in ConnIds : hnd[s][c].permit}

RECURSIVE SumAccepted(_)
SumAccepted(S) ==
    IF S = {} THEN 0
    ELSE LET s == CHOOSE x \in S : TRUE IN srv[s].accepted + SumAccepted(S \ {s})

TotalAccepted == SumAccepted(SrvIds)

\* Whether the run may still accept a connection.
CanAccept == TotalAccepted < (IF master.pc = "none" THEN MaxAccepts ELSE MasterAccepts)

\* ------------------------------------------------ Server::run, Listener
\* run(): publish Listening, leak the configuration, enter the select.
Run(s) ==
    /\ srv[s].pc = "spawned"
    /\ srv' = [srv EXCEPT ![s].pc = "check", ![s].state = Listening,
                          ![s].config = "leaked"]
    /\ UNCHANGED <<master, hnd, requests, svcVars>>

\* CheckPermits that takes one available permit for none.
CheckPermits_OffByOne(s) ==
    /\ srv[s].pc = "check"
    /\ srv' = [srv EXCEPT ![s].notifyAgain = (srv[s].permits <= 1),
                          ![s].pc = IF srv[s].permits <= 1 THEN "pub_max" ELSE "acquire"]
    /\ UNCHANGED <<master, hnd, requests, svcVars>>

\* listen(): notify_listening_again = false; available_permits() == 0 ?
CheckPermits(s) ==
    /\ srv[s].pc = "check"
    /\ srv' = [srv EXCEPT ![s].notifyAgain = (srv[s].permits = 0),
                          ![s].pc = IF srv[s].permits = 0 THEN "pub_max" ELSE "acquire"]
    /\ UNCHANGED <<master, hnd, requests, svcVars>>

\* state.send_replace(MaxConnectionsReached(config.max_connections))
PublishMaxConnections(s) ==
    /\ srv[s].pc = "pub_max"
    /\ srv' = [srv EXCEPT ![s].state = MaxConnectionsReached(srv[s].maxConn),
                          ![s].pc = "acquire"]
    /\ UNCHANGED <<master, hnd, requests, svcVars>>

\* AcquirePermit with a semaphore that hands out a permit it does not have.
AcquirePermit_NoWait(s) ==
    /\ srv[s].pc = "acquire"
    /\ srv' = [srv EXCEPT ![s].permits = IF @ > 0 THEN @ - 1 ELSE 0, ![s].loopPermit = TRUE,
                          ![s].pc = IF srv[s].notifyAgain THEN "pub_listen" ELSE "accept"]
    /\ UNCHANGED <<master, hnd, requests, svcVars>>

\* connections.clone().acquire_owned().await: waits until a permit is free.
AcquirePermit(s) ==
    /\ srv[s].pc = "acquire"
    /\ srv[s].permits > 0
    /\ srv' = [srv EXCEPT ![s].permits = @ - 1, ![s].loopPermit = TRUE,
                          ![s].pc = IF srv[s].notifyAgain THEN "pub_listen" ELSE "accept"]
    /\ UNCHANGED <<master, hnd, requests, svcVars>>

\* PublishListening done by a detached step that also runs once the Server
\* is collecting acknowledgements.
PublishListening_AnyTime(s) ==
    /\ srv[s].pc \in {"pub_listen", "collect"}
    /\ srv[s].notifyAgain
    /\ srv' = [srv EXCEPT ![s].state = Listening,
                          ![s].pc = IF @ = "pub_listen" THEN "accept" ELSE @]
    /\ UNCHANGED <<master, hnd, requests, svcVars>>

\* if notify_listening_again { state.send_replace(Listening) }
PublishListening(s) ==
    /\ srv[s].pc = "pub_listen"
    /\ srv' = [srv EXCEPT ![s].state = Listening, ![s].pc = "accept"]
    /\ UNCHANGED <<master, hnd, requests, svcVars>>

\* Accept whose accept() is not cancelled with the select: it still returns
\* a connection after the shutdown branch was taken.
Accept_Detached(s) ==
    /\ srv[s].pc \in {"accept", "drop_listener"}
    /\ srv[s].listener = "open"
    /\ CanAccept
    /\ LET c == srv[s].accepted + 1 IN
        /\ c \in ConnIds
        /\ hnd' = [hnd EXCEPT ![s][c] =
                [NoHandler EXCEPT !.pc = "serving", !.permit = TRUE, !.sub = TRUE,
                                  !.pre = (srv[s].trigger = "pending")]]
        /\ srv' = [srv EXCEPT ![s].accepted = c, ![s].loopPermit = FALSE,
                              ![s].pc = IF @ = "accept" THEN "check" ELSE @]
    /\ UNCHANGED <<master, requests, svcVars>>

\* listener.accept().await succeeds; notifier.subscribe(); local_addr();
\* tokio::task::spawn(handler).  The handler owns the stream, the
\* subscription and the permit.
Accept(s) ==
    /\ srv[s].pc = "accept"
    /\ srv[s].listener = "open"
    /\ CanAccept
    /\ LET c == srv[s].accepted + 1 IN
        /\ c \in ConnIds
        /\ hnd' = [hnd EXCEPT ![s][c] =
                [NoHandler EXCEPT !.pc = "serving", !.permit = TRUE, !.sub = TRUE,
                                  !.pre = (srv[s].trigger = "pending")]]
        /\ srv' = [srv EXCEPT ![s].accepted = c, ![s].loopPermit = FALSE,
                              ![s].pc = "check"]
    /\ UNCHANGED <<master, requests, svcVars>>

\* listener.accept().await? returns an error: listen() returns it, the
\* select ends, its futures (the permit, the shutdown future) are dropped.
AcceptError(s) ==
    /\ srv[s].pc = "accept"
    /\ srv[s].listener = "open"
    /\ srv' = [srv EXCEPT ![s].listenResult = "Err", ![s].early = (master.future = "pending"), ![s].loopPermit = FALSE,
                          ![s].permits = @ + 1, ![s].rx = FALSE,
                          ![s].pc = "drop_listener"]
    /\ UNCHANGED <<master, hnd, requests, svcVars>>

\* accept() succeeds, subscribe(), then stream.local_addr()? fails: the
\* stream, the subscription and the permit are dropped, listen() returns
\* the error and no handler is spawned.
LocalAddrError(s) ==
    /\ srv[s].pc = "accept"
    /\ srv[s].listener = "open"
    /\ CanAccept
    /\ LET c == srv[s].accepted + 1 IN
        /\ c \in ConnIds
        /\ hnd' = [hnd EXCEPT ![s][c] =
                [NoHandler EXCEPT !.pc = "rejected", !.pre = (srv[s].trigger = "pending")]]
        /\ srv' = [srv EXCEPT ![s].accepted = c, ![s].listenResult = "Err", ![s].early = (master.future = "pending"),
                              ![s].loopPermit = FALSE, ![s].permits = @ + 1,
                              ![s].rx = FALSE, ![s].pc = "drop_listener"]
    /\ UNCHANGED <<master, requests, svcVars>>

\* SelectShutdown that forgets the permit the dropped listen() holds.
SelectShutdown_LeaksPermit(s) ==
    /\ srv[s].pc \in {"acquire", "accept"}
    /\ srv[s].trigger = "ready"
    /\ srv' = [srv EXCEPT ![s].listenResult = "cancelled",
                          ![s].loopPermit = FALSE, ![s].rx = FALSE,
                          ![s].pc = "drop_listener"]
    /\ UNCHANGED <<master, hnd, requests, svcVars>>

\* select!: the shutdown future is ready while listen() is pending at one
\* of its awaits (acquire_owned, accept): listen() is dropped, and with it
\* the permit it may hold.
SelectShutdown(s) ==
    /\ srv[s].pc \in {"acquire", "accept"}
    /\ srv[s].trigger = "ready"
    /\ srv' = [srv EXCEPT ![s].listenResult = "cancelled",
                          ![s].permits = IF srv[s].loopPermit THEN @ + 1 ELSE @,
                          ![s].loopPermit = FALSE, ![s].rx = FALSE,
                          ![s].pc = "drop_listener"]
    /\ UNCHANGED <<master, hnd, requests, svcVars>>

\* DropListener that leaves the socket to be closed when run returns.
DropListener_KeepsSocket(s) ==
    /\ srv[s].pc = "drop_listener"
    /\ srv' = [srv EXCEPT ![s].pc = "send"]
    /\ UNCHANGED <<master, hnd, requests, svcVars>>

\* drop(listener): the socket is closed.
DropListener(s) ==
    /\ srv[s].pc = "drop_listener"
    /\ srv' = [srv EXCEPT ![s].listener = "closed", ![s].pc = "send"]
    /\ UNCHANGED <<master, hnd, requests, svcVars>>

\* NotifierSend that cancels the handlers it notifies: they leave
\* serve_connection at once.
NotifierSend_Cancels(s) ==
    /\ srv[s].pc = "send"
    /\ LET live == LiveSubscriptions(s) IN
        IF live = {}
        THEN /\ srv' = [srv EXCEPT ![s].sendResult = "Err", ![s].pc = "free_config"]
             /\ UNCHANGED hnd
        ELSE /\ srv' = [srv EXCEPT ![s].sendResult = "Ok",
                                   ![s].numTasks = Cardinality(live),
                                   ![s].pc = "pub_pending"]
             /\ hnd' = [hnd EXCEPT ![s] =
                    [c \in ConnIds |->
                        IF c \in live
                        THEN [hnd[s][c] EXCEPT !.msg = TRUE,
                                               !.pc = IF @ = "serving" THEN "check" ELSE @]
                        ELSE hnd[s][c]]]
    /\ UNCHANGED <<master, requests, svcVars>>

\* NotifierSend that counts the connections still being served instead of
\* the live receivers.
NotifierSend_CountsServing(s) ==
    /\ srv[s].pc = "send"
    /\ LET live == LiveSubscriptions(s) IN
        IF live = {}
        THEN /\ srv' = [srv EXCEPT ![s].sendResult = "Err", ![s].pc = "free_config"]
             /\ UNCHANGED hnd
        ELSE /\ srv' = [srv EXCEPT ![s].sendResult = "Ok",
                                   ![s].numTasks = Cardinality({c \in live : hnd[s][c].pc = "serving"}),
                                   ![s].pc = "pub_pending"]
             /\ hnd' = [hnd EXCEPT ![s] =
                    [c \in ConnIds |-> IF c \in live
                                       THEN [hnd[s][c] EXCEPT !.msg = TRUE]
                                       ELSE hnd[s][c]]]
    /\ UNCHANGED <<master, requests, svcVars>>

\* NotifierSend whose send gives Ok(0) when there is no receiver.
NotifierSend_OkZero(s) ==
    /\ srv[s].pc = "send"
    /\ LET live == LiveSubscriptions(s) IN
        /\ srv' = [srv EXCEPT ![s].sendResult = "Ok",
                              ![s].numTasks = Cardinality(live),
                              ![s].pc = "pub_pending"]
        /\ hnd' = [hnd EXCEPT ![s] =
               [c \in ConnIds |-> IF c \in live
                                  THEN [hnd[s][c] EXCEPT !.msg = TRUE]
                                  ELSE hnd[s][c]]]
    /\ UNCHANGED <<master, requests, svcVars>>

\* notifier.send(Shutdown): broadcast::Sender::send gives the number of
\* live receivers, each of which gets the message, or an error when there
\* is none.
NotifierSend(s) ==
    /\ srv[s].pc = "send"
    /\ LET live == LiveSubscriptions(s) IN
        IF live = {}
        THEN /\ srv' = [srv EXCEPT ![s].sendResult = "Err", ![s].pc = "free_config"]
             /\ UNCHANGED hnd
        ELSE /\ srv' = [srv EXCEPT ![s].sendResult = "Ok",
                                   ![s].numTasks = Cardinality(live),
                                   ![s].pc = "pub_pending"]
             /\ hnd' = [hnd EXCEPT ![s] =
                    [c \in ConnIds |-> IF c \in live
                                       THEN [hnd[s][c] EXCEPT !.msg = TRUE]
                                       ELSE hnd[s][c]]]
    /\ UNCHANGED <<master, requests, svcVars>>

\* PublishPending after which run does not wait for the acknowledgements.
PublishPending_SkipsCollect(s) ==
    /\ srv[s].pc = "pub_pending"
    /\ srv' = [srv EXCEPT ![s].state = PendingConnections(srv[s].numTasks),
                          ![s].pc = "free_config"]
    /\ UNCHANGED <<master, hnd, requests, svcVars>>

\* state.send_replace(ShuttingDown(PendingConnections(num_tasks)))
PublishPending(s) ==
    /\ srv[s].pc = "pub_pending"
    /\ srv' = [srv EXCEPT ![s].state = PendingConnections(srv[s].numTasks),
                          ![s].pc = "collect_start"]
    /\ UNCHANGED <<master, hnd, requests, svcVars>>

\* CollectStart that keeps the Notifier's own acknowledge_sender alive.
CollectStart_KeepsSender(s) ==
    /\ srv[s].pc = "collect_start"
    /\ srv' = [srv EXCEPT ![s].pc = "collect"]
    /\ UNCHANGED <<master, hnd, requests, svcVars>>

\* collect_acknowledgements(): drop(acknowledge_sender)
CollectStart(s) ==
    /\ srv[s].pc = "collect_start"
    /\ srv' = [srv EXCEPT ![s].ackSender = FALSE, ![s].pc = "collect"]
    /\ UNCHANGED <<master, hnd, requests, svcVars>>

\* while let Some(_ack) = acknowledge_receiver.recv().await {}
CollectRecv(s) ==
    /\ srv[s].pc = "collect"
    /\ srv[s].ackBuf > 0
    /\ srv' = [srv EXCEPT ![s].ackBuf = @ - 1, ![s].acks = @ + 1]
    /\ UNCHANGED <<master, hnd, requests, svcVars>>

\* CollectClose that takes an empty channel for a closed one.
CollectClose_IgnoresSenders(s) ==
    /\ srv[s].pc = "collect"
    /\ srv[s].ackBuf = 0
    /\ srv' = [srv EXCEPT ![s].notifTx = FALSE, ![s].ackRx = FALSE,
                          ![s].pc = "free_config"]
    /\ UNCHANGED <<master, hnd, requests, svcVars>>

\* recv() gives None: the channel is empty and every sender is dropped.
\* drop(notification_sender); the receiver goes with the function.
CollectClose(s) ==
    /\ srv[s].pc = "collect"
    /\ srv[s].ackBuf = 0
    /\ ~srv[s].ackSender
    /\ LiveSubscriptions(s) = {}
    /\ srv' = [srv EXCEPT ![s].notifTx = FALSE, ![s].ackRx = FALSE,
                          ![s].pc = "free_config"]
    /\ UNCHANGED <<master, hnd, requests, svcVars>>

\* unsafe { drop(Box::from_raw(config)) }
FreeConfig(s) ==
    /\ srv[s].pc = "free_config"
    /\ srv' = [srv EXCEPT ![s].config = "freed", ![s].pc = "pub_done"]
    /\ UNCHANGED <<master, hnd, requests, svcVars>>

\* state.send_replace(ShuttingDown(Done)); Ok(()).  What run() still owns
\* (the Notifier, when send failed) is dropped.
PublishDone(s) ==
    /\ srv[s].pc = "pub_done"
    /\ srv' = [srv EXCEPT ![s].state = Done, ![s].result = "Ok",
                          ![s].notifTx = FALSE, ![s].ackRx = FALSE,
                          ![s].ackSender = FALSE, ![s].pc = "done"]
    /\ UNCHANGED <<master, hnd, requests, svcVars>>

\* ------------------------------------------------------- handler task
\* serve_connection: the client sends a request on the open connection.
ClientRequest(s, c) ==
    /\ hnd[s][c].pc = "serving"
    /\ hnd[s][c].req = "idle"
    /\ requests < MaxRequests
    /\ requests' = requests + 1
    /\ hnd' = [hnd EXCEPT ![s][c].req = "pending",
                          ![s][c].late = @ \/ srv[s].state[1] = "ShuttingDown.PendingConnections"]
    /\ UNCHANGED <<master, srv, svcVars>>

\* Respond that looks for the notification after every request and leaves
\* serve_connection when there is one.
Respond_ThenChecks(s, c) ==
    /\ hnd[s][c].pc = "serving"
    /\ hnd[s][c].req = "pending"
    /\ hnd' = [hnd EXCEPT ![s][c].req = "idle",
                          ![s][c].pc = IF hnd[s][c].msg THEN "check" ELSE @]
    /\ UNCHANGED <<master, srv, requests, svcVars>>

\* serve_connection: the request is dispatched to the service and answered.
Respond(s, c) ==
    /\ hnd[s][c].pc = "serving"
    /\ hnd[s][c].req = "pending"
    /\ hnd' = [hnd EXCEPT ![s][c].req = "idle"]
    /\ UNCHANGED <<master, srv, requests, svcVars>>

\* serve_connection returns Ok: the client closed the connection.
ClientClose(s, c) ==
    /\ hnd[s][c].pc = "serving"
    /\ hnd[s][c].req = "idle"
    /\ hnd' = [hnd EXCEPT ![s][c].pc = "check"]
    /\ UNCHANGED <<master, srv, requests, svcVars>>

\* HttpError whose error ends the accept loop of the Server.
HttpError_EndsListen(s, c) ==
    /\ hnd[s][c].pc = "serving"
    /\ hnd[s][c].req = "idle"
    /\ hnd' = [hnd EXCEPT ![s][c].pc = "check"]
    /\ srv' = [srv EXCEPT ![s].listenResult = IF srv[s].pc = "accept" THEN "Err" ELSE @,
                          ![s].permits = IF srv[s].pc = "accept" THEN @ + 1 ELSE @,
                          ![s].loopPermit = IF srv[s].pc = "accept" THEN FALSE ELSE @,
                          ![s].pc = IF @ = "accept" THEN "drop_listener" ELSE @]
    /\ UNCHANGED <<master, requests, svcVars>>

\* serve_connection returns Err (what the client sent is no request): logged.
HttpError(s, c) ==
    /\ hnd[s][c].pc = "serving"
    /\ hnd[s][c].req = "idle"
    /\ hnd' = [hnd EXCEPT ![s][c].pc = "check"]
    /\ UNCHANGED <<master, srv, requests, svcVars>>

\* ReceiveNotification that takes an empty channel for a notification.
ReceiveNotification_AlwaysSome(s, c) ==
    /\ hnd[s][c].pc = "check"
    /\ hnd' = [hnd EXCEPT ![s][c].msg = FALSE, ![s][c].pc = "ack"]
    /\ UNCHANGED <<master, srv, requests, svcVars>>

\* subscription.receive_notification(): try_recv().ok()
ReceiveNotification(s, c) ==
    /\ hnd[s][c].pc = "check"
    /\ hnd' = [hnd EXCEPT ![s][c].msg = FALSE,
                          ![s][c].pc = IF hnd[s][c].msg THEN "ack" ELSE "drop_permit"]
    /\ UNCHANGED <<master, srv, requests, svcVars>>

\* subscription.acknowledge_notification().await: waits for room in the
\* channel; acknowledge_sender.send(()) fails when the receiver is gone and
\* the unwrap panics, which unwinds the task (permit and subscription are
\* dropped).
Acknowledge(s, c) ==
    /\ hnd[s][c].pc = "ack"
    /\ IF srv[s].ackRx
       THEN /\ srv[s].ackBuf < AckCapacity
            /\ srv' = [srv EXCEPT ![s].ackBuf = @ + 1]
            /\ hnd' = [hnd EXCEPT ![s][c].pc = "drop_permit"]
       ELSE /\ srv' = [srv EXCEPT ![s].permits = @ + 1]
            /\ hnd' = [hnd EXCEPT ![s][c].pc = "panicked", ![s][c].permit = FALSE,
                                  ![s][c].sub = FALSE,
                                  ![s][c].goneAfterSend = (srv[s].sendResult = "Ok")]
    /\ UNCHANGED <<master, requests, svcVars>>

\* DropPermit by a handler that also publishes Listening when it frees the
\* last permit.
DropPermit_PublishesListening(s, c) ==
    /\ hnd[s][c].pc = "drop_permit"
    /\ hnd' = [hnd EXCEPT ![s][c].permit = FALSE, ![s][c].pc = "drop_sub"]
    /\ srv' = [srv EXCEPT ![s].permits = @ + 1,
                          ![s].state = IF srv[s].permits = 0 /\ ~IsShuttingDown(@)
                                       THEN Listening ELSE @]
    /\ UNCHANGED <<master, requests, svcVars>>

\* drop(permit)
DropPermit(s, c) ==
    /\ hnd[s][c].pc = "drop_permit"
    /\ hnd' = [hnd EXCEPT ![s][c].permit = FALSE, ![s][c].pc = "drop_sub"]
    /\ srv' = [srv EXCEPT ![s].permits = @ + 1]
    /\ UNCHANGED <<master, requests, svcVars>>

\* End of the task: what it captured (the subscription) is dropped.
DropSubscription(s, c) ==
    /\ hnd[s][c].pc = "drop_sub"
    /\ hnd' = [hnd EXCEPT ![s][c].sub = FALSE, ![s][c].pc = "finished",
                          ![s][c].goneAfterSend = (srv[s].sendResult = "Ok")]
    /\ UNCHANGED <<master, srv, requests, svcVars>>

\* ------------------------------------------- a Server used on its own
\* The future given to Server::shutdown_on completes.
FireTrigger(s) ==
    /\ master.pc = "none"
    /\ srv[s].pc \notin {"none", "done"}
    /\ srv[s].trigger = "pending"
    /\ srv' = [srv EXCEPT ![s].trigger = "ready"]
    /\ UNCHANGED <<master, hnd, requests, svcVars>>

\* MasterInitServer that skips a server whose address cannot be bound.
MasterInitServer_SkipsFailed ==
    /\ master.pc = "init"
    /\ LET i == master.idx IN
        /\ srv' = IF master.bindable[i]
                  THEN [srv EXCEPT ![i] = ServerInit(srv[i].maxConn)]
                  ELSE srv
        /\ master' = [master EXCEPT !.idx = IF i = NumServers THEN 1 ELSE i + 1,
                                    !.pc = IF i = NumServers THEN "built" ELSE "init"]
    /\ UNCHANGED <<hnd, requests, svcVars>>

\* ------------------------------------------------------------- Master
\* Master::init, one turn of `for config in config.servers`:
\* Server::init(config)? binds the socket or returns the error, and then
\* the servers built so far are dropped.
MasterInitServer ==
    /\ master.pc = "init"
    /\ LET i == master.idx IN
        IF master.bindable[i]
        THEN /\ srv' = [srv EXCEPT ![i] = ServerInit(srv[i].maxConn)]
             /\ master' = [master EXCEPT !.idx = IF i = NumServers THEN 1 ELSE i + 1,
                                         !.pc = IF i = NumServers THEN "built" ELSE "init"]
        ELSE /\ srv' = [s \in SrvIds |->
                            IF s < i THEN [srv[s] EXCEPT !.pc = "dropped", !.listener = "closed",
                                                         !.ackSender = FALSE, !.ackRx = FALSE,
                                                         !.notifTx = FALSE, !.config = "none"]
                            ELSE srv[s]]
             /\ master' = [master EXCEPT !.pc = "init_failed", !.result = "Err"]
    /\ UNCHANGED <<hnd, requests, svcVars>>

\* Master::shutdown_on(future): every server gets a receiver of the
\* shutdown_notify channel as its shutdown future.
MasterShutdownOn ==
    /\ master.pc = "built"
    /\ ~master.registered
    /\ master' = [master EXCEPT !.registered = TRUE]
    /\ srv' = [s \in SrvIds |-> [srv[s] EXCEPT !.rx = TRUE]]
    /\ UNCHANGED <<hnd, requests, svcVars>>

\* Master::run: for server in self.servers { set.spawn(server.run()) }
MasterSpawn ==
    /\ master.pc \in {"built", "spawn"}
    /\ LET i == master.idx IN
        /\ srv' = [srv EXCEPT ![i].pc = "spawned"]
        /\ master' = [master EXCEPT !.idx = IF i = NumServers THEN 1 ELSE i + 1,
                                    !.pc = IF i = NumServers THEN "select" ELSE "spawn"]
    /\ UNCHANGED <<hnd, requests, svcVars>>

\* The future given to Master::shutdown_on completes (without shutdown_on
\* the Master's future is future::pending()).
MasterFutureReady ==
    /\ master.pc \in {"built", "spawn", "select"}
    /\ master.registered
    /\ master.future = "pending"
    /\ master' = [master EXCEPT !.future = "ready"]
    /\ UNCHANGED <<srv, hnd, requests, svcVars>>

\* select!, branch Some(Ok(Err(err))) = set.join_next(): a server task has
\* ended.  With an error the branch is taken; with Ok(()) the pattern does
\* not match and the branch is disabled for the rest of the select.
MasterSelectJoin ==
    /\ master.pc = "select"
    /\ master.errBranch
    /\ \E s \in SrvIds \ master.joined :
        /\ srv[s].pc = "done"
        /\ IF srv[s].result = "Err"
           THEN master' = [master EXCEPT !.joined = @ \cup {s}, !.firstError = "Err",
                                         !.pc = "broadcast"]
           ELSE master' = [master EXCEPT !.joined = @ \cup {s}, !.errBranch = FALSE]
    /\ UNCHANGED <<srv, hnd, requests, svcVars>>

\* select!, branch _ = self.shutdown
MasterSelectShutdown ==
    /\ master.pc = "select"
    /\ master.future = "ready"
    /\ master' = [master EXCEPT !.pc = "broadcast"]
    /\ UNCHANGED <<srv, hnd, requests, svcVars>>

\* self.shutdown_notify.send(()).unwrap(): every live receiver gets the
\* signal; with no live receiver send fails and the unwrap panics, which
\* drops the JoinSet (its tasks are aborted).
MasterBroadcast ==
    /\ master.pc = "broadcast"
    /\ LET receivers == {s \in SrvIds : srv[s].rx} IN
        IF receivers = {}
        THEN /\ master' = [master EXCEPT !.pc = "panicked"]
             /\ UNCHANGED srv
        ELSE /\ master' = [master EXCEPT !.sent = @ + 1, !.pc = "join"]
             /\ srv' = [s \in SrvIds |-> IF s \in receivers
                                         THEN [srv[s] EXCEPT !.trigger = "ready"]
                                         ELSE srv[s]]
    /\ UNCHANGED <<hnd, requests, svcVars>>

\* while let Some(result) = set.join_next().await:
\* first_error.get_or_insert(err)
MasterJoin ==
    /\ master.pc = "join"
    /\ \E s \in SrvIds \ master.joined :
        /\ srv[s].pc = "done"
        /\ master' = [master EXCEPT !.joined = @ \cup {s},
                        !.firstError = IF @ = "None" /\ srv[s].result = "Err"
                                       THEN "Err" ELSE @]
    /\ UNCHANGED <<srv, hnd, requests, svcVars>>

\* join_next() gives None: match first_error { None => Ok(()), Some => Err }
MasterReturn ==
    /\ master.pc = "join"
    /\ master.joined = SrvIds
    /\ master' = [master EXCEPT !.pc = "done",
                    !.result = IF master.firstError = "None" THEN "Ok" ELSE "Err"]
    /\ UNCHANGED <<srv, hnd, requests, svcVars>>

\* A server task of the dropped JoinSet is cancelled at its await
\* (collect_acknowledgements: the servers have all left their select when
\* the broadcast finds no receiver): its Notifier is dropped, the leaked
\* configuration stays.
ServerAbort(s) ==
    /\ master.pc = "panicked"
    /\ srv[s].pc = "collect"
    /\ srv' = [srv EXCEPT ![s].pc = "aborted", ![s].ackRx = FALSE,
                          ![s].notifTx = FALSE, ![s].ackBuf = 0]
    /\ UNCHANGED <<master, hnd, requests, svcVars>>

MasterStep ==
    \/ MasterInitServer
    \/ MasterShutdownOn
    \/ MasterSpawn
    \/ MasterFutureReady
    \/ MasterSelectJoin
    \/ MasterSelectShutdown
    \/ MasterBroadcast
    \/ MasterJoin
    \/ MasterReturn

ServerStep(s) ==
    \/ Run(s)
    \/ CheckPermits(s)
    \/ PublishMaxConnections(s)
    \/ AcquirePermit(s)
    \/ PublishListening(s)
    \/ Accept(s)
    \/ AcceptError(s)
    \/ LocalAddrError(s)
    \/ SelectShutdown(s)
    \/ DropListener(s)
    \/ NotifierSend(s)
    \/ PublishPending(s)
    \/ CollectStart(s)
    \/ CollectRecv(s)
    \/ CollectClose(s)
    \/ FreeConfig(s)
    \/ PublishDone(s)

HandlerStep(s, c) ==
    \/ Respond(s, c)
    \/ ReceiveNotification(s, c)
    \/ Acknowledge(s, c)
    \/ DropPermit(s, c)
    \/ DropSubscription(s, c)

ClientStep(s, c) ==
    \/ ClientRequest(s, c)
    \/ ClientClose(s, c)
    \/ HttpError(s, c)

\* Server::init(config).shutdown_on(future), spawned as a task: one Server,
\* any max_connections.
Init ==
    /\ master = NoMaster
    /\ \E n \in 1..MaxConnections :
        srv = [s \in SrvIds |-> IF s = 1
                                THEN [ServerInit(n) EXCEPT !.pc = "spawned"]
                                ELSE NoServer(n)]
    /\ hnd = [s \in SrvIds |-> [c \in ConnIds |-> NoHandler]]
    /\ requests = 0
    /\ sched = NoSched /\ call = NoCall /\ fwd = NoFwd /\ xfer = NoXfer
    /\ deser = NoDeser

Next ==
    \/ \E s \in SrvIds : ServerStep(s)
    \/ \E s \in SrvIds : FireTrigger(s)
    \/ \E s \in SrvIds, c \in ConnIds : HandlerStep(s, c)
    \/ \E s \in SrvIds, c \in ConnIds : ClientStep(s, c)

Spec == Init /\ [][Next]_vars

\* Master::init(config) over NumServers servers, some of whose addresses
\* cannot be bound.
InitMaster ==
    /\ \E b \in [SrvIds -> BOOLEAN] :
        master = [NoMaster EXCEPT !.pc = "init", !.bindable = b]
    /\ \E n \in 1..MaxConnections : srv = [s \in SrvIds |-> NoServer(n)]
    /\ hnd = [s \in SrvIds |-> [c \in ConnIds |-> NoHandler]]
    /\ requests = 0
    /\ sched = NoSched /\ call = NoCall /\ fwd = NoFwd /\ xfer = NoXfer
    /\ deser = NoDeser

NextMaster ==
    \/ MasterStep
    \/ \E s \in SrvIds : ServerStep(s)
    \/ \E s \in SrvIds : ServerAbort(s)
    \/ \E s \in SrvIds, c \in ConnIds : HandlerStep(s, c)
    \/ \E s \in SrvIds, c \in ConnIds : ClientStep(s, c)

SpecMaster == InitMaster /\ [][NextMaster]_vars

\* --------------------------------------------------------------- fairness
\* The steps of the Server task that do not wait for the network.
ServerProgress(s) ==
    \/ Run(s)
    \/ CheckPermits(s)
    \/ PublishMaxConnections(s)
    \/ AcquirePermit(s)
    \/ PublishListening(s)
    \/ SelectShutdown(s)
    \/ DropListener(s)
    \/ NotifierSend(s)
    \/ PublishPending(s)
    \/ CollectStart(s)
    \/ CollectRecv(s)
    \/ CollectClose(s)
    \/ FreeConfig(s)
    \/ PublishDone(s)

\* The client of a connection accepted before the trigger fired closes it.
EarlyClientClose(s, c) == hnd[s][c].pre /\ ClientClose(s, c)

\* The runtime schedules every task that can run; the clients of the
\* connections accepted before the shutdown trigger fired close them.
FairSpec ==
    /\ Spec
    /\ \A s \in SrvIds : WF_vars(ServerProgress(s))
    /\ \A s \in SrvIds, c \in ConnIds : WF_vars(HandlerStep(s, c))
    /\ \A s \in SrvIds, c \in ConnIds : WF_vars(EarlyClientClose(s, c))

\* --------------------------- handler task: what the service answers with
\* forward: TcpStream::connect(to) fails, the request is answered with 502
\* Bad Gateway; the connection goes on being served.
RespondBadGateway_Fails(s, c) ==
    /\ hnd[s][c].pc = "serving"
    /\ hnd[s][c].req = "pending"
    /\ hnd' = [hnd EXCEPT ![s][c].req = "idle", ![s][c].badGateway = TRUE,
                          ![s][c].pc = "check"]
    /\ UNCHANGED <<master, srv, requests, svcVars>>

RespondBadGateway(s, c) ==
    /\ hnd[s][c].pc = "serving"
    /\ hnd[s][c].req = "pending"
    /\ hnd' = [hnd EXCEPT ![s][c].req = "idle", ![s][c].badGateway = TRUE]
    /\ UNCHANGED <<master, srv, requests, svcVars>>

\* forward: the client asked for an upgrade and the backend answers 101:
\* tokio::task::spawn(tunnel(client_upgrade, server_upgrade)), and the 101
\* goes back to the client.
RespondUpgrade(s, c) ==
    /\ hnd[s][c].pc = "serving"
    /\ hnd[s][c].req = "pending"
    /\ hnd' = [hnd EXCEPT ![s][c].req = "upgraded", ![s][c].tunnel = "spawned"]
    /\ UNCHANGED <<master, srv, requests, svcVars>>

\* serve_connection(..).with_upgrades() has sent the 101: it hands the
\* socket to the upgrade and returns Ok.
ConnectionUpgraded(s, c) ==
    /\ hnd[s][c].pc = "serving"
    /\ hnd[s][c].req = "upgraded"
    /\ hnd' = [hnd EXCEPT ![s][c].pc = "check", ![s][c].req = "idle"]
    /\ UNCHANGED <<master, srv, requests, svcVars>>

\* tunnel: try_join!(client, server) gives both upgraded streams once the
\* connection has handed over the socket; copy_bidirectional begins.
TunnelCopy(s, c) ==
    /\ hnd[s][c].tunnel = "spawned"
    /\ hnd[s][c].pc # "serving"
    /\ hnd' = [hnd EXCEPT ![s][c].tunnel = "copying"]
    /\ UNCHANGED <<master, srv, requests, svcVars>>

\* tunnel: both directions are closed, copy_bidirectional returns and the
\* task ends.
TunnelEnd(s, c) ==
    /\ hnd[s][c].tunnel = "copying"
    /\ hnd' = [hnd EXCEPT ![s][c].tunnel = "closed"]
    /\ UNCHANGED <<master, srv, requests, svcVars>>

TunnelStep(s, c) ==
    \/ RespondUpgrade(s, c)
    \/ ConnectionUpgraded(s, c)
    \/ TunnelCopy(s, c)
    \/ TunnelEnd(s, c)

\* A Server used on its own whose patterns forward to backends that may be
\* down.
NextProxy ==
    \/ \E s \in SrvIds : ServerStep(s)
    \/ \E s \in SrvIds : FireTrigger(s)
    \/ \E s \in SrvIds, c \in ConnIds : HandlerStep(s, c)
    \/ \E s \in SrvIds, c \in ConnIds : ClientStep(s, c)
    \/ \E s \in SrvIds, c \in ConnIds : RespondBadGateway(s, c)

\* A Server used on its own whose clients ask for upgrades.
NextTunnel ==
    \/ \E s \in SrvIds : ServerStep(s)
    \/ \E s \in SrvIds : FireTrigger(s)
    \/ \E s \in SrvIds, c \in ConnIds : HandlerStep(s, c)
    \/ \E s \in SrvIds, c \in ConnIds : ClientStep(s, c)
    \/ \E s \in SrvIds, c \in ConnIds : TunnelStep(s, c)

SpecTunnel == Init /\ [][NextTunnel]_vars

SpecProxy == Init /\ [][NextProxy]_vars

\* ------------------------------------- sched::wrr, sync::ring (scheduler)
\* Words of usize.
UsizeValues == 2 ^ UsizeBits

\* The servers' task hierarchy at rest.
TasksIdle == UNCHANGED <<master, srv, hnd, requests>>

\* Backend lists: every backend has an address (its place in the list) and
\* a weight.
WeightLists == UNION {[1..n -> 0..MaxWeight] : n \in 1..MaxBackends}

\* The cycle WeightedRoundRobin::new builds: for each backend in declaration
\* order, its address pushed weight times.
RECURSIVE PushWeight(_, _, _)
PushWeight(cycle, address, weight) ==
    IF weight > 0 THEN PushWeight(Append(cycle, address), address, weight - 1)
    ELSE cycle

RECURSIVE BuildCycle(_, _, _)
BuildCycle(cycle, backends, b) ==
    IF b > Len(backends) THEN cycle
    ELSE BuildCycle(PushWeight(cycle, b, backends[b]), backends, b + 1)

\* WeightedRoundRobin::new(backends): the cycle in a Ring whose next is 0.
WeightedRoundRobinNew ==
    /\ sched.pc = "config"
    /\ sched' = [sched EXCEPT !.pc = "built",
                              !.cycle = BuildCycle(<<>>, sched.weights, 1),
                              !.next = 0]
    /\ UNCHANGED <<call, fwd, xfer, deser>>
    /\ TasksIdle

\* A task calls scheduler.next_server().
NextServer(t) ==
    /\ sched.pc = "built"
    /\ sched.caller[t].pc = "idle"
    /\ sched.calls < MaxCalls
    /\ sched' = [sched EXCEPT !.caller[t].pc = "index",
                              !.calls = @ + 1,
                              !.overlap = @ \/ \E u \in 1..NumCallers :
                                                sched.caller[u].pc # "idle"]
    /\ UNCHANGED <<call, fwd, xfer, deser>>
    /\ TasksIdle

\* Ring::next_index: 0 for a ring of one value, else
\* next.fetch_add(1, Relaxed) % values.len(); fetch_add wraps around at the
\* width of usize, and the remainder of a division by zero panics.
NextIndex(t) ==
    /\ sched.caller[t].pc = "index"
    /\ LET len == Len(sched.cycle) IN
        IF len = 1
        THEN sched' = [sched EXCEPT !.caller[t] = [pc |-> "read", idx |-> 0],
                                    !.order = Append(@, sched.cycle[1])]
        ELSE IF len = 0
        THEN sched' = [sched EXCEPT !.caller[t].pc = "panicked",
                                    !.next = (@ + 1) % UsizeValues]
        ELSE LET idx == sched.next % len IN
             sched' = [sched EXCEPT !.caller[t] = [pc |-> "read", idx |-> idx],
                                    !.next = (@ + 1) % UsizeValues,
                                    !.order = Append(@, sched.cycle[idx + 1])]
    /\ UNCHANGED <<call, fwd, xfer, deser>>
    /\ TasksIdle

\* Ring::next_as_owned: *(&values[index]); next_server returns it.
NextAsOwned(t) ==
    /\ sched.caller[t].pc = "read"
    /\ sched' = [sched EXCEPT !.caller[t].pc = "idle",
                              !.returned = Append(@, sched.cycle[sched.caller[t].idx + 1])]
    /\ UNCHANGED <<call, fwd, xfer, deser>>
    /\ TasksIdle

\* A scheduler made for a Forward action and the tasks that share it.
InitSched ==
    /\ master = NoMaster
    /\ srv = [s \in SrvIds |-> NoServer(1)]
    /\ hnd = [s \in SrvIds |-> [c \in ConnIds |-> NoHandler]]
    /\ requests = 0
    /\ \E w \in WeightLists : sched = [NoSched EXCEPT !.pc = "config", !.weights = w]
    /\ call = NoCall /\ fwd = NoFwd /\ xfer = NoXfer /\ deser = NoDeser

NextSched ==
    \/ WeightedRoundRobinNew
    \/ \E t \in 1..NumCallers : NextServer(t)
    \/ \E t \in 1..NumCallers : NextIndex(t)
    \/ \E t \in 1..NumCallers : NextAsOwned(t)

SpecSched == InitSched /\ [][NextSched]_vars

\* ------------------------------------ service::Rxh::call, proxy::forward
\* URIs: strings of at most MaxUriLen characters.
UriChars == {"/", "a"}
Uris == UNION {[1..n -> UriChars] : n \in 0..MaxUriLen}

\* The ordered pattern list of a server: each pattern a URI prefix and one
\* action.
Patterns == [uri : Uris, action : {"Forward", "Serve"}]
PatternLists == UNION {[1..n -> Patterns] : n \in 0..MaxPatterns}

\* str::starts_with
StartsWith(s, p) == Len(p) <= Len(s) /\ SubSeq(s, 1, Len(p)) = p

\* config.patterns.iter().find(|pattern| uri.starts_with(pattern.uri)): the
\* place of the first pattern that matches, 0 for None.
FindPattern_Last(patterns, uri) ==
    LET matching == {i \in 1..Len(patterns) : StartsWith(uri, patterns[i].uri)} IN
    IF matching = {} THEN 0
    ELSE CHOOSE i \in matching : \A j \in matching : j <= i

FindPattern_OrFirst(patterns, uri) ==
    LET matching == {i \in 1..Len(patterns) : StartsWith(uri, patterns[i].uri)} IN
    IF matching = {} THEN (IF Len(patterns) > 0 THEN 1 ELSE 0)
    ELSE CHOOSE i \in matching : \A j \in matching : i <= j

RECURSIVE FindFrom(_, _, _)
FindFrom(patterns, uri, i) ==
    IF i > Len(patterns) THEN 0
    ELSE IF StartsWith(uri, patterns[i].uri) THEN i
    ELSE FindFrom(patterns, uri, i + 1)

FindPattern(patterns, uri) == FindFrom(patterns, uri, 1)

\* The Ring of the scheduler of every Forward pattern: the length of its
\* cycle and its counter.  A Serve pattern has none.
NewRings(patterns, len, next) ==
    [i \in 1..Len(patterns) |->
        IF patterns[i].action = "Forward" THEN [len |-> len, next |-> next]
        ELSE [len |-> 0, next |-> 0]]

\* Ring::next_index on a ring that is not empty: the index it returns and
\* the ring it leaves.
RingIndex(ring) == IF ring.len = 1 THEN 0 ELSE ring.next % ring.len
RingAfter(ring) ==
    IF ring.len = 1 THEN ring ELSE [ring EXCEPT !.next = (@ + 1) % UsizeValues]

\* A request arrives at the service of a connection.
NewCall(patterns, uri) ==
    [pc |-> "call", patterns |-> patterns, uri |-> uri,
     executed |-> 0, dialed |-> FALSE, served |-> FALSE,
     upgradeHeader |-> FALSE, clientUpgrade |-> FALSE, connTask |-> FALSE,
     sent |-> FALSE, upstream |-> 0, tunnel |-> FALSE, result |-> "none",
     rings |-> NewRings(patterns, 1, 0), before |-> NewRings(patterns, 1, 0),
     backend |-> 0]

\* Rxh::call up to the match on the action: no pattern gives 404, a Forward
\* pattern asks its scheduler for a backend (scheduler.next_server()), a
\* Serve pattern strips the leading separator of the path.
Dispatch ==
    /\ call.pc = "call"
    /\ LET i == FindPattern(call.patterns, call.uri) IN
        call' = IF i = 0
                THEN [call EXCEPT !.pc = "done", !.result = "404"]
                ELSE IF call.patterns[i].action = "Forward"
                THEN [call EXCEPT !.executed = i, !.pc = "connect",
                                  !.backend = RingIndex(call.rings[i]) + 1,
                                  !.rings[i] = RingAfter(@)]
                ELSE [call EXCEPT !.executed = i, !.pc = "transfer"]
    /\ UNCHANGED <<sched, fwd, xfer, deser>>
    /\ TasksIdle

\* files::transfer answers with the file or with 404.
ServeFile ==
    /\ call.pc = "transfer"
    /\ \E r \in {"200", "404"} :
        call' = [call EXCEPT !.pc = "done", !.served = TRUE, !.result = r]
    /\ UNCHANGED <<sched, fwd, xfer, deser>>
    /\ TasksIdle

\* forward: TcpStream::connect(to) fails: 502 Bad Gateway.
ConnectFails ==
    /\ call.pc = "connect"
    /\ call' = [call EXCEPT !.pc = "done", !.dialed = TRUE, !.result = "502"]
    /\ UNCHANGED <<sched, fwd, xfer, deser>>
    /\ TasksIdle

\* forward: the connection to the backend is made.
Connected ==
    /\ call.pc = "connect"
    /\ call' = [call EXCEPT !.pc = "handshake", !.dialed = TRUE]
    /\ UNCHANGED <<sched, fwd, xfer, deser>>
    /\ TasksIdle

\* forward: handshake(stream).await? fails: call returns the error.
HandshakeFails ==
    /\ call.pc = "handshake"
    /\ call' = [call EXCEPT !.pc = "done", !.result = "Err"]
    /\ UNCHANGED <<sched, fwd, xfer, deser>>
    /\ TasksIdle

\* Handshake that leaves the OnUpgrade in the request it sends on.
Handshake_KeepsUpgrade ==
    /\ call.pc = "handshake"
    /\ \E u \in BOOLEAN :
        call' = [call EXCEPT !.pc = "send", !.connTask = TRUE, !.upgradeHeader = u]
    /\ UNCHANGED <<sched, fwd, xfer, deser>>
    /\ TasksIdle

\* forward: the handshake is done, the connection task is spawned, and the
\* OnUpgrade of a request that has an Upgrade header is taken.
Handshake ==
    /\ call.pc = "handshake"
    /\ \E u \in BOOLEAN :
        call' = [call EXCEPT !.pc = "send", !.connTask = TRUE,
                             !.upgradeHeader = u, !.clientUpgrade = u]
    /\ UNCHANGED <<sched, fwd, xfer, deser>>
    /\ TasksIdle

\* forward: sender.send_request(request.into_forwarded()).await? fails.
SendRequestFails ==
    /\ call.pc = "send"
    /\ call' = [call EXCEPT !.pc = "done", !.sent = TRUE, !.result = "Err"]
    /\ UNCHANGED <<sched, fwd, xfer, deser>>
    /\ TasksIdle

\* forward: the backend answers.
SendRequest ==
    /\ call.pc = "send"
    /\ \E status \in {200, 101} :
        call' = [call EXCEPT !.pc = "response", !.sent = TRUE, !.upstream = status]
    /\ UNCHANGED <<sched, fwd, xfer, deser>>
    /\ TasksIdle

\* forward, after the response: a 101 spawns the tunnel when the client
\* asked for an upgrade and becomes 502 when it did not; every other
\* response goes back to the client.
ForwardResponse_AlwaysTunnels ==
    /\ call.pc = "response"
    /\ call' = IF call.upstream = 101
               THEN [call EXCEPT !.pc = "done", !.tunnel = TRUE, !.result = "101"]
               ELSE [call EXCEPT !.pc = "done", !.result = "200"]
    /\ UNCHANGED <<sched, fwd, xfer, deser>>
    /\ TasksIdle

ForwardResponse ==
    /\ call.pc = "response"
    /\ call' = IF call.upstream = 101
               THEN IF call.clientUpgrade
                    THEN [call EXCEPT !.pc = "done", !.tunnel = TRUE, !.result = "101"]
                    ELSE [call EXCEPT !.pc = "done", !.result = "502"]
               ELSE [call EXCEPT !.pc = "done", !.result = "200"]
    /\ UNCHANGED <<sched, fwd, xfer, deser>>
    /\ TasksIdle

\* One request, any pattern list.
InitCall ==
    /\ master = NoMaster
    /\ srv = [s \in SrvIds |-> NoServer(1)]
    /\ hnd = [s \in SrvIds |-> [c \in ConnIds |-> NoHandler]]
    /\ requests = 0
    /\ \E patterns \in PatternLists, uri \in Uris : call = NewCall(patterns, uri)
    /\ sched = NoSched /\ fwd = NoFwd /\ xfer = NoXfer /\ deser = NoDeser

NextCall ==
    \/ Dispatch
    \/ ServeFile
    \/ ConnectFails
    \/ Connected
    \/ HandshakeFails
    \/ Handshake
    \/ SendRequestFails
    \/ SendRequest
    \/ ForwardResponse

SpecCall == InitCall /\ [][NextCall]_vars

\* One request to a server that has been running: the schedulers of its
\* Forward patterns have any cycle and have been called any number of
\* times.
InitCallLater ==
    /\ master = NoMaster
    /\ srv = [s \in SrvIds |-> NoServer(1)]
    /\ hnd = [s \in SrvIds |-> [c \in ConnIds |-> NoHandler]]
    /\ requests = 0
    /\ \E patterns \in PatternLists, uri \in Uris,
          len \in 1..(MaxBackends * MaxWeight), next \in 0..(UsizeValues - 1) :
        call = [NewCall(patterns, uri) EXCEPT !.rings = NewRings(patterns, len, next),
                                              !.before = NewRings(patterns, len, next)]
    /\ sched = NoSched /\ fwd = NoFwd /\ xfer = NoXfer /\ deser = NoDeser

SpecCallLater == InitCallLater /\ [][NextCall]_vars

\* --------------------------------- http::request::ProxyRequest (Forwarded)
\* Host header values a client sends: plain ASCII, UTF-8 that is not ASCII,
\* and bytes that are not UTF-8.
HostValues == {"example.com", "café.example", "caf\\xE9.example"}

\* Forwarded groups a request arrives with; the last one is not ASCII.
IncomingGroups == {"for=x", "for=y", "for=é"}

\* HeaderValue::to_str succeeds on visible ASCII only.
IsVisibleAscii(text) == text \in {"example.com", "for=x", "for=y"}
IsUtf8(text) == text # "caf\\xE9.example"

\* A header value that is a list of groups: to_str succeeds when every
\* group does; the groups the proxies write are ASCII.
ToStrOk(value) == \A i \in 1..Len(value) : value[i] \in IncomingGroups => IsVisibleAscii(value[i])

\* The header lines named Forwarded of an incoming request.
ForwardedLines == UNION {[1..n -> {<<g>> : g \in IncomingGroups}] : n \in 0..MaxLines}

\* Addresses: of the client, and of proxy p (the address its server listens
\* on, the local address of an accepted connection, and the address its
\* connection to the next hop comes from).
ListenAddr(p, wildcard) ==
    IF wildcard THEN "0.0.0.0:" \o ToString(8000 + p)
    ELSE "10.0.0." \o ToString(p) \o ":" \o ToString(8000 + p)
LocalAddr(p) == "10.0.0." \o ToString(p) \o ":" \o ToString(8000 + p)
PeerAddr(p) ==
    IF p = 0 THEN "192.0.2.43:5000" ELSE "10.0.0." \o ToString(p) \o ":5000"

\* format!("for={};by={};host={}", client_addr, server_addr, host)
Format(client_addr, server_addr, host) ==
    "for=" \o client_addr \o ";by=" \o server_addr \o ";host=" \o host

\* A request as the client sends it.
NewRequest(host, lines) ==
    [pc |-> "sent", hop |-> 0, host |-> host, forwarded |-> lines,
     before |-> lines, client |-> "none", server |-> "none", listen |-> "none"]

\* ProxyRequest::new(request, client_addr, server_addr).into_forwarded() in
\* proxy hop + 1: host from the Host header when to_str succeeds, else the
\* server address; the group appended to the first Forwarded value when it
\* is there and to_str succeeds; headers.insert replaces every Forwarded
\* line by the new value.
IntoForwarded_Swapped(wildcard) ==
    /\ fwd.pc = "sent"
    /\ fwd.hop < MaxProxies
    /\ LET p == fwd.hop + 1
           client_addr == PeerAddr(fwd.hop)
           server_addr == LocalAddr(p)
           host == IF fwd.host # "none" /\ IsVisibleAscii(fwd.host)
                   THEN fwd.host ELSE server_addr
           forwarded == Format(server_addr, client_addr, host)
           value == IF Len(fwd.forwarded) > 0 /\ ToStrOk(fwd.forwarded[1])
                    THEN Append(fwd.forwarded[1], forwarded)
                    ELSE <<forwarded>> IN
        fwd' = [fwd EXCEPT !.hop = p, !.before = fwd.forwarded,
                           !.forwarded = <<value>>, !.client = client_addr,
                           !.server = server_addr, !.listen = ListenAddr(p, wildcard)]
    /\ UNCHANGED <<sched, call, xfer, deser>>
    /\ TasksIdle

IntoForwarded(wildcard) ==
    /\ fwd.pc = "sent"
    /\ fwd.hop < MaxProxies
    /\ LET p == fwd.hop + 1
           client_addr == PeerAddr(fwd.hop)
           server_addr == LocalAddr(p)
           host == IF fwd.host # "none" /\ IsVisibleAscii(fwd.host)
                   THEN fwd.host ELSE server_addr
           forwarded == Format(client_addr, server_addr, host)
           value == IF Len(fwd.forwarded) > 0 /\ ToStrOk(fwd.forwarded[1])
                    THEN Append(fwd.forwarded[1], forwarded)
                    ELSE <<forwarded>> IN
        fwd' = [fwd EXCEPT !.hop = p, !.before = fwd.forwarded,
                           !.forwarded = <<value>>, !.client = client_addr,
                           !.server = server_addr, !.listen = ListenAddr(p, wildcard)]
    /\ UNCHANGED <<sched, call, xfer, deser>>
    /\ TasksIdle

\* A client's request, with or without a Host header and Forwarded lines.
InitFwd ==
    /\ master = NoMaster
    /\ srv = [s \in SrvIds |-> NoServer(1)]
    /\ hnd = [s \in SrvIds |-> [c \in ConnIds |-> NoHandler]]
    /\ requests = 0
    /\ \E host \in HostValues \cup {"none"}, lines \in ForwardedLines :
        fwd = NewRequest(host, lines)
    /\ sched = NoSched /\ call = NoCall /\ xfer = NoXfer /\ deser = NoDeser

NextFwd == \E wildcard \in BOOLEAN : IntoForwarded(wildcard)

SpecFwd == InitFwd /\ [][NextFwd]_vars

\* ---------------------------------------------- service::files::transfer
\* The file system: /www with a file f and an entry l, /etc with a file p.
\* A path is the sequence of its components; the entry l of /www is absent
\* or a symbolic link.
Names == {"www", "etc", "f", "p", "l", ".."}
LinkTargets == {<<"etc", "p">>, <<"etc">>, <<"www", "f">>}
Links == {<<>>} \cup LinkTargets

\* What is at a canonical path: a directory, a regular file, a symbolic
\* link, or nothing.
Kind(link, path) ==
    IF path \in {<<>>, <<"www">>, <<"etc">>} THEN "dir"
    ELSE IF path \in {<<"www", "f">>, <<"etc", "p">>} THEN "file"
    ELSE IF path = <<"www", "l">> /\ link # <<>> THEN "link"
    ELSE "none"

\* std::fs::canonicalize: from the directory cur, walk the components,
\* following links and "..": <<"Ok", path>>, or <<"Err">> when a component
\* does not exist or a file is used as a directory.
RECURSIVE Walk(_, _, _)
Walk(link, cur, rest) ==
    IF rest = <<>> THEN <<"Ok", cur>>
    ELSE IF Kind(link, cur) # "dir" THEN <<"Err">>
    ELSE IF Head(rest) = ".."
         THEN Walk(link, IF cur = <<>> THEN cur ELSE SubSeq(cur, 1, Len(cur) - 1), Tail(rest))
    ELSE LET next == Append(cur, Head(rest)) IN
         CASE Kind(link, next) = "none" -> <<"Err">>
           [] Kind(link, next) = "link" -> Walk(link, link, Tail(rest))
           [] OTHER -> Walk(link, next, Tail(rest))

Canonicalize(link, path) == Walk(link, <<>>, path)

\* Path::join: an absolute path replaces the directory.
Join(directory, absolute, segments) ==
    IF absolute THEN segments ELSE directory \o segments

\* Path::starts_with: by whole components.
PathStartsWith(file, directory) ==
    Len(directory) <= Len(file) /\ SubSeq(file, 1, Len(directory)) = directory

\* Request paths: one or two leading separators, then the segments.
RequestPaths ==
    [slashes : 1..2, segments : UNION {[1..n -> Names] : n \in 0..MaxSegments}]

\* Configured roots.
Roots == {<<"www">>, <<"www", "l">>, <<"missing">>}

\* Rxh::call, Action::Serve: the path loses its first character when it
\* starts with a separator, and transfer(path, directory) begins.
NewTransfer(link, root, request) ==
    [pc |-> "root", link |-> link, root |-> root, request |-> request,
     absolute |-> (request.slashes > 1), directory |-> <<>>, file |-> <<>>,
     status |-> "none", content |-> <<>>]

\* Path::new(root).canonicalize()
CanonicalizeRoot ==
    /\ xfer.pc = "root"
    /\ LET r == Canonicalize(xfer.link, xfer.root) IN
        xfer' = IF r[1] = "Ok"
                THEN [xfer EXCEPT !.pc = "file", !.directory = r[2]]
                ELSE [xfer EXCEPT !.pc = "done", !.status = "404"]
    /\ UNCHANGED <<sched, call, fwd, deser>>
    /\ TasksIdle

\* directory.join(path).canonicalize(); joining the empty path leaves a
\* trailing separator, which only a directory can be resolved with.
CanonicalizeFile ==
    /\ xfer.pc = "file"
    /\ LET r == Canonicalize(xfer.link,
                    Join(xfer.directory, xfer.absolute, xfer.request.segments))
           trailing == ~xfer.absolute /\ xfer.request.segments = <<>> IN
        xfer' = IF r[1] = "Ok" /\ (trailing => Kind(xfer.link, r[2]) = "dir")
                THEN [xfer EXCEPT !.pc = "guard", !.file = r[2]]
                ELSE [xfer EXCEPT !.pc = "done", !.status = "404"]
    /\ UNCHANGED <<sched, call, fwd, deser>>
    /\ TasksIdle

\* !file.starts_with(directory) || !file.is_file() gives 404
Guard_NoPrefix ==
    /\ xfer.pc = "guard"
    /\ xfer' = IF Kind(xfer.link, xfer.file) # "file"
               THEN [xfer EXCEPT !.pc = "done", !.status = "404"]
               ELSE [xfer EXCEPT !.pc = "read"]
    /\ UNCHANGED <<sched, call, fwd, deser>>
    /\ TasksIdle

Guard ==
    /\ xfer.pc = "guard"
    /\ xfer' = IF ~PathStartsWith(xfer.file, xfer.directory)
                    \/ Kind(xfer.link, xfer.file) # "file"
               THEN [xfer EXCEPT !.pc = "done", !.status = "404"]
               ELSE [xfer EXCEPT !.pc = "read"]
    /\ UNCHANGED <<sched, call, fwd, deser>>
    /\ TasksIdle

\* tokio::fs::read(file): the content of the file, or 404 when it cannot be
\* read.
Read ==
    /\ xfer.pc = "read"
    /\ \/ xfer' = [xfer EXCEPT !.pc = "done", !.status = "200", !.content = xfer.file]
       \/ xfer' = [xfer EXCEPT !.pc = "done", !.status = "404"]
    /\ UNCHANGED <<sched, call, fwd, deser>>
    /\ TasksIdle

\* One request for a file, any root, any link.
InitXfer ==
    /\ master = NoMaster
    /\ srv = [s \in SrvIds |-> NoServer(1)]
    /\ hnd = [s \in SrvIds |-> [c \in ConnIds |-> NoHandler]]
    /\ requests = 0
    /\ \E link \in Links, root \in Roots, request \in RequestPaths :
        xfer = NewTransfer(link, root, request)
    /\ sched = NoSched /\ call = NoCall /\ fwd = NoFwd /\ deser = NoDeser

NextXfer ==
    \/ CanonicalizeRoot
    \/ CanonicalizeFile
    \/ Guard
    \/ Read

SpecXfer == InitXfer /\ [][NextXfer]_vars

\* ------------------------------------ config::deser (ServerVisitor)
\* enum Field: the keys of a server table.
Field == {"listen", "match", "forward", "serve", "uri", "name", "connections"}

\* The fields whose value is an array the visitor looks at the length of.
ArrayFields == {"listen", "match"}

\* One key of the table with the length of its value (1 for a value that
\* is no array).
Entries ==
    [field : ArrayFields, len : 0..MaxItems] \cup [field : Field \ ArrayFields, len : {1}]

\* The tables a TOML document can hold: no key twice, the keys in the order
\* the document has them.
Tables ==
    UNION {{t \in [1..n -> Entries] :
                \A i, j \in 1..n : t[i].field = t[j].field => i = j} : n \in 0..MaxKeys}

\* visit_map, the locals before the loop: no address, no pattern, no simple
\* pattern, no name, the default uri.
NewVisit(table) ==
    [pc |-> "loop", input |-> table, rest |-> table,
     listen |-> 0, patterns |-> 0, simple_pattern |-> "None", name |-> FALSE,
     uri |-> "default", connections |-> "default", result |-> "none"]

\* return Err(..)
Fail(st, error) == [st EXCEPT !.pc = "done", !.result = error]

\* One turn of `while let Some(key) = map.next_key()?`: the arm of the key.
VisitField(st, e) ==
    CASE e.field = "listen" ->
            IF st.listen > 0 THEN Fail(st, "duplicate_field(listen)")
            ELSE [st EXCEPT !.listen = e.len]
      [] e.field = "match" ->
            IF st.patterns > 0 THEN Fail(st, "duplicate_field(listen)")
            ELSE IF st.simple_pattern # "None" THEN Fail(st, "MixedSimpleAndMatch")
            ELSE [st EXCEPT !.patterns = e.len]
      [] e.field = "forward" ->
            IF st.patterns > 0 THEN Fail(st, "MixedSimpleAndMatch")
            ELSE IF st.simple_pattern = "Forward" THEN Fail(st, "duplicate_field(forward)")
            ELSE IF st.simple_pattern = "Serve" THEN Fail(st, "MixedActions")
            ELSE [st EXCEPT !.simple_pattern = "Forward"]
      [] e.field = "serve" ->
            IF st.patterns > 0 THEN Fail(st, "MixedSimpleAndMatch")
            ELSE IF st.simple_pattern = "Forward" THEN Fail(st, "MixedActions")
            ELSE IF st.simple_pattern = "Serve" THEN Fail(st, "duplicate_field(serve)")
            ELSE [st EXCEPT !.simple_pattern = "Serve"]
      [] e.field = "uri" ->
            IF st.patterns > 0 THEN Fail(st, "MixedSimpleAndMatch")
            ELSE [st EXCEPT !.uri = "set"]
      [] e.field = "name" ->
            IF st.name THEN Fail(st, "duplicate_field(name)")
            ELSE [st EXCEPT !.name = TRUE]
      [] e.field = "connections" -> [st EXCEPT !.connections = "set"]

\* After the loop: the simple pattern gets the uri and is pushed; no
\* pattern is MissingConfig, no address is missing_field("listen").
EndOfMap(st) ==
    LET patterns == IF st.simple_pattern # "None" THEN st.patterns + 1 ELSE st.patterns IN
        IF patterns = 0 THEN Fail(st, "MissingConfig")
        ELSE IF st.listen = 0 THEN Fail(st, "missing_field(listen)")
        ELSE [st EXCEPT !.pc = "done", !.patterns = patterns, !.result = "Ok"]

\* visit_map from the state st over the keys that are left.
RECURSIVE VisitMap(_, _)
VisitMap(st, rest) ==
    IF st.pc = "done" THEN st
    ELSE IF rest = <<>> THEN EndOfMap(st)
    ELSE VisitMap(VisitField(st, Head(rest)), Tail(rest))

\* map.next_key() gives a key: its arm runs.
VisitKey ==
    /\ deser.pc = "loop"
    /\ deser.rest # <<>>
    /\ deser' = LET st == VisitField(deser, Head(deser.rest)) IN
                    [st EXCEPT !.rest = Tail(deser.rest)]
    /\ UNCHANGED <<sched, call, fwd, xfer>>
    /\ TasksIdle

\* map.next_key() gives None: the loop ends and the Server is built.
VisitEnd ==
    /\ deser.pc = "loop"
    /\ deser.rest = <<>>
    /\ deser' = EndOfMap(deser)
    /\ UNCHANGED <<sched, call, fwd, xfer>>
    /\ TasksIdle

\* One server table, any keys in any order.
InitDeser ==
    /\ master = NoMaster
    /\ srv = [s \in SrvIds |-> NoServer(1)]
    /\ hnd = [s \in SrvIds |-> [c \in ConnIds |-> NoHandler]]
    /\ requests = 0
    /\ \E table \in Tables : deser = NewVisit(table)
    /\ sched = NoSched /\ call = NoCall /\ fwd = NoFwd /\ xfer = NoXfer

NextDeser ==
    \/ VisitKey
    \/ VisitEnd

SpecDeser == InitDeser /\ [][NextDeser]_vars

\* ------------------------------------------------------------------ claims
\* Handler tasks that have been spawned and whose task has not ended.
Unfinished(s) == {c \in ConnIds : hnd[s][c].pc \notin {"none", "rejected", "finished", "panicked"}}

\* Whether the Server task has left its select (the accept loop is gone).
AfterSelect(s) ==
    srv[s].pc \in {"drop_listener", "send", "pub_pending", "collect_start", "collect",
                   "free_config", "pub_done", "done", "aborted"}

\* collect_acknowledgements has returned.
CollectDone(s) ==
    srv[s].sendResult = "Ok" /\ srv[s].pc \in {"free_config", "pub_done", "done"}

\* C1 (as stated): at most max_connections handler tasks are spawned and not
\* yet finished, and accept() is only awaited with a permit in hand.
C1_UnfinishedBound ==
    \A s \in SrvIds :
        /\ Cardinality(Unfinished(s)) <= srv[s].maxConn
        /\ srv[s].pc = "accept" => srv[s].loopPermit

\* C1 (amended): at most max_connections handler tasks hold a permit, the
\* permit of the accept loop counted with them, and accept() is only awaited
\* with a permit in hand.
C1_PermitBound ==
    \A s \in SrvIds :
        /\ Cardinality(PermitHolders(s)) + (IF srv[s].loopPermit THEN 1 ELSE 0) <= srv[s].maxConn
        /\ srv[s].pc = "accept" => srv[s].loopPermit

C1_Witness ==
    /\ srv[1].pc = "acquire"
    /\ srv[1].permits = 0
    /\ Cardinality(PermitHolders(1)) = srv[1].maxConn

\* C2: collect_acknowledgements returns only when every subscription that
\* was alive at the send is dropped (none of them still serves), and it does
\* return once they are all dropped.
C2_CollectExactly ==
    /\ [](\A s \in SrvIds : CollectDone(s) =>
            \A c \in ConnIds : ~hnd[s][c].sub /\ hnd[s][c].pc # "serving")
    /\ \A s \in SrvIds :
        (srv[s].sendResult = "Ok" /\ LiveSubscriptions(s) = {}) ~> CollectDone(s)

C2_Witness ==
    /\ CollectDone(1)
    /\ srv[1].numTasks = 2
    /\ srv[1].acks = 1

\* C3 (as stated): once the trigger has fired, and with the connections
\* accepted before it closed, the Server reaches ShuttingDown(Done) and run
\* returns.
C3_ShutdownCompletes ==
    [](srv[1].trigger = "ready" => <>(srv[1].pc = "done" /\ srv[1].state = Done))

\* C3 (amended): once the trigger has fired, and with every connection the
\* Server accepted closed, the Server reaches ShuttingDown(Done) and run
\* returns.
C3_ShutdownCompletesAllClosed ==
    []<>(\A c \in ConnIds : hnd[1][c].pc # "serving")
        => [](srv[1].trigger = "ready" => <>(srv[1].pc = "done" /\ srv[1].state = Done))

C3_Witness ==
    /\ srv[1].pc = "done"
    /\ srv[1].listenResult = "cancelled"
    /\ srv[1].acks >= 1
    /\ \E c \in ConnIds : hnd[1][c].pc = "finished" /\ ~hnd[1][c].pre

C5_NoAcceptAfterTrigger ==
    \A s \in SrvIds, c \in ConnIds : hnd[s][c].pc # "none" => hnd[s][c].pre

\* C5 (amended): once the Server task has left its select, no connection is
\* accepted and no handler is spawned.
C5_NoAcceptAfterSelect ==
    [][\A s \in SrvIds : AfterSelect(s) =>
            /\ srv'[s].accepted = srv[s].accepted
            /\ \A c \in ConnIds : hnd[s][c].pc = "none" => hnd'[s][c].pc = "none"]_vars

C5_Witness ==
    /\ srv[1].pc = "drop_listener"
    /\ srv[1].listenResult = "cancelled"
    /\ srv[1].listener = "open"
    /\ CanAccept

\* Position of a state in Starting, Listening/MaxConnectionsReached,
\* ShuttingDown(PendingConnections), ShuttingDown(Done).
Rank(st) ==
    CASE st[1] = "Starting" -> 0
      [] st[1] \in {"Listening", "MaxConnectionsReached"} -> 1
      [] st[1] = "ShuttingDown.PendingConnections" -> 2
      [] st[1] = "ShuttingDown.Done" -> 3

\* C6: the published state never moves back, and never changes after
\* ShuttingDown(Done).
C6_StateMonotone ==
    [][\A s \in SrvIds :
            /\ Rank(srv'[s].state) >= Rank(srv[s].state)
            /\ IsShuttingDown(srv[s].state) => IsShuttingDown(srv'[s].state)
            /\ srv[s].state = Done => srv'[s].state = Done]_vars

C6_Witness ==
    /\ srv[1].state = Done
    /\ srv[1].notifyAgain
    /\ srv[1].sendResult = "Ok"

\* C7: the k of ShuttingDown(PendingConnections(k)) is the number of
\* subscriptions alive at the send: those alive now and those dropped since.
C7_PendingCount ==
    \A s \in SrvIds :
        srv[s].state[1] = "ShuttingDown.PendingConnections" =>
            srv[s].state[2] =
                Cardinality({c \in ConnIds : hnd[s][c].sub \/ hnd[s][c].goneAfterSend})

C7_Witness ==
    /\ srv[1].state = PendingConnections(1)
    /\ \E c \in ConnIds : hnd[1][c].pc = "finished" /\ ~hnd[1][c].goneAfterSend
    /\ \E c \in ConnIds : hnd[1][c].pc = "drop_sub" /\ ~hnd[1][c].msg

\* C8: once the Master's shutdown future has completed and the Master is
\* past its select, exactly one signal has been broadcast, and the Master
\* has returned only if every Server has.
C8_OneBroadcast ==
    (master.future = "ready" /\ master.pc \in {"join", "done", "panicked"}) =>
        /\ master.sent = 1
        /\ master.pc = "done" => \A s \in SrvIds : srv[s].pc = "done"

\* C9: when the accept loop of a Server ended with an error before the
\* Master's shutdown future completed, Master::run returns an error.
C9_FirstError ==
    (master.pc = "done" /\ \E s \in SrvIds : srv[s].listenResult = "Err" /\ srv[s].early) =>
        master.result = "Err"

\* C10: when a bind fails, init returns the error and no Server runs or
\* accepts; a Server runs only when every socket has been bound.
C10_InitAllOrNothing ==
    /\ master.pc = "init_failed" =>
        /\ master.result = "Err"
        /\ \A s \in SrvIds :
            /\ srv[s].pc \in {"none", "dropped"}
            /\ srv[s].listener # "open"
            /\ srv[s].state = Starting
            /\ srv[s].accepted = 0
    /\ (\E s \in SrvIds : srv[s].pc \notin {"none", "init", "dropped"}) =>
        \A t \in SrvIds : srv[t].listener # "none"

C10_Witness ==
    /\ master.pc = "init_failed"
    /\ \E s \in SrvIds : srv[s].pc = "dropped"

\* The sum of the weights of a backend list.
RECURSIVE SumWeights(_, _)
SumWeights(w, b) == IF b > Len(w) THEN 0 ELSE w[b] + SumWeights(w, b + 1)

\* The cycle the weights describe: backend b, w[b] times, in declaration
\* order.
ExpectedCycle(w) ==
    [i \in 1..SumWeights(w, 1) |->
        CHOOSE b \in 1..Len(w) :
            /\ SumWeights(SubSeq(w, 1, b - 1), 1) < i
            /\ i <= SumWeights(SubSeq(w, 1, b), 1)]

\* C11: on a freshly built scheduler the i-th call made sequentially
\* (i = 0, 1, 2, ...) returns cycle[i mod sum of the weights].
C11_Sequential ==
    (sched.pc = "built" /\ ~sched.overlap /\ SumWeights(sched.weights, 1) > 0) =>
        \A i \in 1..Len(sched.returned) :
            sched.returned[i] =
                ExpectedCycle(sched.weights)[((i - 1) % SumWeights(sched.weights, 1)) + 1]

\* How often backend b is in the sequence s.
Occurrences(s, b) == Cardinality({i \in 1..Len(s) : s[i] = b})

\* C12: ordered by their atomic index computation, every window of
\* sum-of-weights consecutive calls holds backend b exactly w(b) times.
C12_Window ==
    LET w == sched.weights
        n == SumWeights(w, 1) IN
    (sched.pc = "built" /\ n > 0) =>
        \A i \in 1..(Len(sched.order) - n + 1) :
            \A b \in 1..Len(w) :
                Occurrences(SubSeq(sched.order, i, i + n - 1), b) = w[b]

\* The patterns whose uri is a prefix of the request URI.
Matching == {i \in 1..Len(call.patterns) : StartsWith(call.uri, call.patterns[i].uri)}

\* C13: the action executed for a request is the action of the first pattern
\* in declaration order whose uri is a prefix of the request URI, never the
\* action of a later pattern that matches too.
C13_FirstMatch ==
    (call.pc # "off" /\ call.executed # 0) =>
        /\ call.executed \in Matching
        /\ \A j \in Matching : call.executed <= j
        /\ (call.dialed => call.patterns[call.executed].action = "Forward")
        /\ (call.served => call.patterns[call.executed].action = "Serve")

\* Two patterns with different actions match and the first one was executed.
C13_Witness ==
    /\ call.pc = "done"
    /\ call.executed = 1
    /\ 2 \in Matching
    /\ call.patterns[1].action # call.patterns[2].action
    /\ call.patterns[1].uri # call.patterns[2].uri

\* C14: a request none of the pattern prefixes matches gets 404 and is
\* neither forwarded to a backend nor served from a directory.
C14_NoMatch404 ==
    (call.pc # "off" /\ Matching = {}) =>
        /\ ~call.dialed /\ ~call.served /\ ~call.sent
        /\ call.pc \in {"call", "done"}
        /\ (call.pc = "done" => call.result = "404")

\* A request no pattern of a non-empty list matches has been answered.
C14_Witness ==
    /\ call.pc = "done"
    /\ Len(call.patterns) > 0
    /\ Matching = {}
    /\ call.result = "404"

\* C16: when the backend answers 101 Switching Protocols to a request that
\* had no Upgrade header, the client gets 502 Bad Gateway and no tunnel task
\* is spawned.
C16_UnrequestedUpgrade ==
    (call.pc # "off" /\ call.upstream = 101 /\ ~call.upgradeHeader) =>
        /\ ~call.tunnel
        /\ (call.pc = "done" => call.result = "502")

\* A 101 nobody asked for has been answered.
C16_Witness ==
    /\ call.pc = "done"
    /\ call.upstream = 101
    /\ ~call.upgradeHeader
    /\ call.result = "502"

\* The groups of a list of header lines, in order.
RECURSIVE Flatten(_)
Flatten(lines) == IF lines = <<>> THEN <<>> ELSE Head(lines) \o Flatten(Tail(lines))

\* The last group of the Forwarded header of the forwarded request.
LastGroup == LET all == Flatten(fwd.forwarded) IN all[Len(all)]

C18_AppendOnly ==
    fwd.hop > 0 =>
        /\ Len(Flatten(fwd.forwarded)) = Len(Flatten(fwd.before)) + 1
        /\ SubSeq(Flatten(fwd.forwarded), 1, Len(Flatten(fwd.before))) = Flatten(fwd.before)

\* The canonical root, when the configured root exists: the root itself, or
\* what its link leads to.
CanonicalRoot ==
    IF xfer.root = <<"www">> THEN <<"www">>
    ELSE IF xfer.root = <<"www", "l">> /\ xfer.link # <<>> THEN xfer.link
    ELSE <<"none">>

\* The regular files of the file system, by canonical path.
RegularFiles == {<<"www", "f">>, <<"etc", "p">>}

C15_BadGateway ==
    [][\A s \in SrvIds, c \in ConnIds :
        /\ (~hnd[s][c].badGateway /\ hnd'[s][c].badGateway) =>
                /\ hnd'[s][c].pc = "serving"
                /\ hnd'[s][c].req = "idle"
                /\ hnd'[s][c].permit
                /\ srv'[s] = srv[s]
        /\ (hnd'[s][c].badGateway /\ hnd'[s][c].pc \in {"finished", "panicked"}) =>
                /\ ~hnd'[s][c].permit
                /\ srv'[s].permits + Cardinality({d \in ConnIds : hnd'[s][d].permit})
                        + (IF srv'[s].loopPermit THEN 1 ELSE 0) = srv'[s].maxConn]_vars

\* A handler that answered 502 has ended and given its permit back, and the
\* Server is accepting connections.
C15_Witness ==
    \E s \in SrvIds, c \in ConnIds :
        /\ hnd[s][c].badGateway
        /\ hnd[s][c].pc = "finished"
        /\ ~hnd[s][c].permit
        /\ srv[s].pc = "accept"
        /\ srv[s].permits + (IF srv[s].loopPermit THEN 1 ELSE 0) = srv[s].maxConn

\* C20: the permit of a connection is held as long as the connection is not
\* completely finished, the whole life of its upgrade tunnel included.
C20_PermitWhileTunnel ==
    \A s \in SrvIds, c \in ConnIds :
        (hnd[s][c].pc = "serving" \/ hnd[s][c].tunnel = "copying")
            => hnd[s][c].permit

\* C21: when the accept loop of a Server has ended with an error, run
\* returns that error, and the Master that has joined the Server holds an
\* error as its first error.
C21_ListenErrorReturned ==
    \A s \in SrvIds :
        (srv[s].pc = "done" /\ srv[s].listenResult = "Err") =>
            /\ srv[s].result = "Err"
            /\ s \in master.joined => master.firstError = "Err"

\* Whether accept() of server s has returned an error (its listen() ended
\* with an error that is not the error of local_addr()).
AcceptFailed(s) ==
    /\ srv[s].listenResult = "Err"
    /\ \A c \in ConnIds : hnd[s][c].pc # "rejected"

\* C22: after accept() has returned an error the Server is still in its
\* accept loop: the socket is open and the state is not ShuttingDown.
C22_AcceptErrorContinues ==
    \A s \in SrvIds :
        AcceptFailed(s) =>
            /\ ~AfterSelect(s)
            /\ srv[s].listener = "open"
            /\ ~IsShuttingDown(srv[s].state)

\* The keys of a table.
FieldsOf(table) == {table[i].field : i \in 1..Len(table)}

\* The orders the keys of a table can be written in.
Reorderings(table) ==
    LET n == Len(table) IN
        {[i \in 1..n |-> table[q[i]]] :
            q \in {f \in [1..n -> 1..n] : \A i, j \in 1..n : f[i] = f[j] => i = j}}

\* C23: a table with `match` and a shorthand key (uri, forward, serve) is
\* rejected, and whether a table is accepted does not depend on the order
\* of its keys.
C23_MatchWithShorthandRejected ==
    deser.pc = "done" =>
        /\ ("match" \in FieldsOf(deser.input)
                /\ FieldsOf(deser.input) \cap {"uri", "forward", "serve"} # {})
            => deser.result # "Ok"
        /\ \A t \in Reorderings(deser.input) :
            (VisitMap(NewVisit(t), t).result = "Ok") <=> (deser.result = "Ok")

\* C24: when the published state is ShuttingDown, and already when the
\* Shutdown notification has been sent, the listening socket is closed.
C24_ClosedBeforeShuttingDown ==
    \A s \in SrvIds :
        (\/ IsShuttingDown(srv[s].state)
         \/ srv[s].sendResult # "none"
         \/ \E c \in ConnIds : hnd[s][c].msg)
            => srv[s].listener = "closed"

C24_Witness ==
    /\ srv[1].state = PendingConnections(1)
    /\ srv[1].listener = "closed"
    /\ srv[1].permits > 0
    /\ CanAccept
    /\ \E c \in ConnIds : hnd[1][c].pc = "serving" /\ hnd[1][c].msg

C26_TunnelDrained ==
    \A s \in SrvIds, c \in ConnIds :
        hnd[s][c].tunnel = "copying" =>
            /\ srv[s].state # Done
            /\ srv[s].pc # "done"

\* C27 (as stated): once the Master has broadcast, every Subscription there
\* is was created before the signal reached its Server.
C27_NoSubscriptionAfterBroadcast ==
    master.sent >= 1 =>
        \A s \in SrvIds, c \in ConnIds : hnd[s][c].pc # "none" => hnd[s][c].pre

\* C27 (amended): once the Master has broadcast and a Server has left its
\* select, that Server creates no Subscription.
C27_NoSubscriptionAfterSelect ==
    [][\A s \in SrvIds :
            (master.sent >= 1 /\ AfterSelect(s)) =>
                /\ srv'[s].accepted = srv[s].accepted
                /\ \A c \in ConnIds : ~hnd[s][c].sub => ~hnd'[s][c].sub]_vars

C27_Witness ==
    /\ master.sent = 1
    /\ CanAccept
    /\ \E s \in SrvIds :
        /\ srv[s].pc = "drop_listener"
        /\ srv[s].listenResult = "cancelled"
        /\ srv[s].listener = "open"

\* The handlers of server s that have read the notification and sent their
\* acknowledgement: their subscription was alive at the send, the message
\* is no longer in their channel, and they are past the acknowledgement.
Acknowledged(s) ==
    {c \in ConnIds :
        /\ srv[s].sendResult = "Ok"
        /\ hnd[s][c].pc \in {"drop_permit", "drop_sub", "finished"}
        /\ hnd[s][c].sub \/ hnd[s][c].goneAfterSend
        /\ ~hnd[s][c].msg}

\* C28: the acknowledgements sent are one for each handler that read the
\* notification, none for a handler that checked before the send, and never
\* more than the k of send; a handler acknowledges only after a send.
C28_AcknowledgeOnce ==
    \A s \in SrvIds :
        /\ srv[s].ackBuf + srv[s].acks = Cardinality(Acknowledged(s))
        /\ srv[s].ackBuf + srv[s].acks <= srv[s].numTasks
        /\ \A c \in ConnIds : hnd[s][c].pc = "ack" => srv[s].sendResult = "Ok"

C28_Witness ==
    /\ srv[1].acks = 1
    /\ srv[1].numTasks = 2
    /\ \E c \in Acknowledged(1) : hnd[1][c].pc = "finished"
    /\ \E c \in ConnIds \ Acknowledged(1) :
        hnd[1][c].pc = "finished" /\ hnd[1][c].goneAfterSend

\* C29: a handler that is about to acknowledge finds the acknowledgement
\* receiver alive, no handler has panicked on the send, and a handler that
\* has not yet looked for the notification and has none waiting finds its
\* channel open.
C29_AcknowledgeNeverFails ==
    \A s \in SrvIds, c \in ConnIds :
        /\ hnd[s][c].pc = "ack" => srv[s].ackRx
        /\ hnd[s][c].pc # "panicked"
        /\ (hnd[s][c].pc \in {"serving", "check"} /\ ~hnd[s][c].msg) => srv[s].notifTx

\* C30: once the configuration is freed, every handler task of the Server
\* has ended: none serves a connection, dispatches a request or is about to
\* acknowledge.
C30_ConfigFreedAfterHandlers ==
    \A s \in SrvIds :
        srv[s].config = "freed" =>
            \A c \in ConnIds :
                /\ hnd[s][c].pc \in {"none", "rejected", "finished"}
                /\ hnd[s][c].req = "idle"

C30_Witness ==
    /\ srv[1].config = "freed"
    /\ srv[1].sendResult = "Err"
    /\ requests = MaxRequests
    /\ \A c \in ConnIds : hnd[1][c].pc = "finished"

\* Whether the step is one of the handler task of connection c: the task
\* moves on, or its service answers a request.
HandlerMoves(s, c) ==
    /\ hnd[s][c].pc # "none"
    /\ \/ hnd'[s][c].pc # hnd[s][c].pc
       \/ hnd[s][c].req = "pending" /\ hnd'[s][c].req # "pending"

\* C31: a step of a handler task leaves the published state alone and takes
\* no permit; it gives back at most the one permit it holds.  A step that
\* changes the state or takes a permit is a step of the Server task: no
\* handler moves in it.
C31_HandlersLeaveState ==
    [][\A s \in SrvIds :
            /\ \A c \in ConnIds : HandlerMoves(s, c) =>
                    /\ srv'[s].state = srv[s].state
                    /\ srv'[s].loopPermit = srv[s].loopPermit
                    /\ srv'[s].permits =
                            srv[s].permits + (IF hnd[s][c].permit /\ ~hnd'[s][c].permit THEN 1 ELSE 0)
                    /\ hnd[s][c].permit \/ ~hnd'[s][c].permit
            /\ (srv'[s].state # srv[s].state \/ srv'[s].permits < srv[s].permits) =>
                    /\ \A c \in ConnIds : hnd'[s][c].pc = hnd[s][c].pc
                    /\ srv[s].pc \in {"spawned", "pub_max", "acquire", "pub_listen",
                                      "pub_pending", "pub_done"}]_vars

C31_Witness ==
    /\ srv[1].state = MaxConnectionsReached(srv[1].maxConn)
    /\ srv[1].pc = "acquire"
    /\ srv[1].permits = 1
    /\ \E c \in ConnIds : hnd[1][c].pc = "drop_sub"

\* C32: an accept loop that waits for a permit has published
\* MaxConnectionsReached(max_connections); the state is never
\* MaxConnectionsReached of another number; the loop decides to publish it
\* only on finding zero permits available; and the loop awaits accept() with
\* the state back at Listening.
C32_MaxConnectionsReached ==
    /\ [](\A s \in SrvIds :
            /\ (srv[s].pc = "acquire" /\ srv[s].permits = 0) =>
                    srv[s].state = MaxConnectionsReached(srv[s].maxConn)
            /\ srv[s].state[1] = "MaxConnectionsReached" =>
                    (srv[s].state[2] = srv[s].maxConn /\ srv[s].notifyAgain)
            /\ srv[s].pc = "accept" => srv[s].state = Listening)
    /\ [][\A s \in SrvIds :
            (srv'[s].pc = "pub_max" /\ srv[s].pc # "pub_max") => srv[s].permits = 0]_vars

C32_Witness ==
    /\ srv[1].pc = "accept"
    /\ srv[1].notifyAgain
    /\ srv[1].state = Listening
    /\ srv[1].permits = 0
    /\ srv[1].maxConn = 2

C34_HttpErrorLocal ==
    /\ [][\A s \in SrvIds, c \in ConnIds :
            (hnd[s][c].pc = "serving" /\ hnd'[s][c].pc # "serving") =>
                /\ srv' = srv
                /\ hnd'[s][c].pc = "check"
                /\ hnd'[s][c].permit /\ hnd'[s][c].sub
                /\ \A d \in ConnIds \ {c} : hnd'[s][d] = hnd[s][d]]_vars
    /\ [](\A s \in SrvIds, c \in ConnIds :
            /\ hnd[s][c].pc \in {"check", "ack", "drop_permit"} => hnd[s][c].permit
            /\ hnd[s][c].pc = "finished" => ~hnd[s][c].permit /\ ~hnd[s][c].sub)
    /\ \A s \in SrvIds, c \in ConnIds :
            (hnd[s][c].pc = "check") ~> (hnd[s][c].pc = "finished")

C34_Witness ==
    /\ srv[1].state = Listening
    /\ srv[1].pc = "accept"
    /\ srv[1].trigger = "pending"
    /\ \E c \in ConnIds : hnd[1][c].pc = "finished"
    /\ \E c \in ConnIds : hnd[1][c].pc = "serving"

\* C35: the cycle built for the backends of a Forward action has as many
\* places as the weights add up to and at least one, and no call of
\* next_server takes a remainder by the length of an empty cycle.
C35_CycleNonEmpty ==
    /\ sched.pc = "built" =>
        /\ Len(sched.cycle) = SumWeights(sched.weights, 1)
        /\ Len(sched.cycle) >= 1
    /\ sched.pc # "off" => \A t \in 1..NumCallers : sched.caller[t].pc # "panicked"

\* C36 (as stated): ShuttingDown(Done) is published only by a Server that
\* has published ShuttingDown(PendingConnections(k)): its send gave a k.
C36_PendingBeforeDone ==
    \A s \in SrvIds : srv[s].state = Done => srv[s].sendResult = "Ok"

\* C36 (amended): ShuttingDown(Done) follows ShuttingDown(PendingConnections(k))
\* when the send found k >= 1 subscriptions, and follows Listening or
\* MaxConnectionsReached directly when it found none;
\* PendingConnections(0) is never published.
C36_PendingUnlessNoSubscription ==
    [][\A s \in SrvIds :
            /\ (srv'[s].state = Done /\ srv[s].state # Done) =>
                    /\ srv[s].sendResult \in {"Ok", "Err"}
                    /\ srv[s].sendResult = "Ok" =>
                            (srv[s].state = PendingConnections(srv[s].numTasks)
                                /\ srv[s].numTasks >= 1)
                    /\ srv[s].sendResult = "Err" =>
                            srv[s].state[1] \in {"Listening", "MaxConnectionsReached"}
            /\ srv'[s].state[1] = "ShuttingDown.PendingConnections" => srv'[s].state[2] >= 1]_vars

C36_Witness ==
    /\ srv[1].state = Done
    /\ srv[1].sendResult = "Err"
    /\ srv[1].notifyAgain
    /\ srv[1].accepted = 2

\* C37: the permits available, those the handlers hold and the one the
\* accept loop holds add up to max_connections; when no handler task is
\* left and the loop holds none, they are all available.
C37_PermitsConserved ==
    \A s \in SrvIds :
        srv[s].pc # "none" =>
            /\ srv[s].permits + Cardinality(PermitHolders(s))
                    + (IF srv[s].loopPermit THEN 1 ELSE 0) = srv[s].maxConn
            /\ PermitHolders(s) \subseteq Unfinished(s)
            /\ (Unfinished(s) = {} /\ AfterSelect(s)) => srv[s].permits = srv[s].maxConn

C37_Witness ==
    /\ srv[1].listenResult = "cancelled"
    /\ srv[1].maxConn = 2
    /\ srv[1].permits = 2
    /\ srv[1].notifyAgain
    /\ \A c \in ConnIds : hnd[1][c].pc = "finished"

\* The place in its cycle the next call of a ring returns.
Position(ring) == ring.next % ring.len

\* C38: once the request is dispatched, the scheduler of the Forward
\* pattern it executes is one place further in its cycle, and the scheduler
\* of every other pattern is as it was; a request that executes no Forward
\* pattern leaves every scheduler as it was.
C38_SchedulerAdvancesOnce ==
    (call.pc \notin {"off", "call"}) =>
        \A i \in 1..Len(call.patterns) :
            IF i = call.executed /\ call.patterns[i].action = "Forward"
            THEN /\ call.rings[i].len = call.before[i].len
                 /\ Position(call.rings[i]) =
                        (Position(call.before[i]) + 1) % call.before[i].len
            ELSE call.rings[i] = call.before[i]

\* C39: whenever Master::run is at its broadcast, at least one Server still
\* holds a receiver of the shutdown channel, and the unwrap on the send
\* never panics.
C39_BroadcastHasReceiver ==
    /\ master.pc = "broadcast" => \E s \in SrvIds : srv[s].rx
    /\ master.pc # "panicked"

\* The index computations made so far, in their atomic order.
IndexCalls == Len(sched.order)

\* C40: the i-th index computation on a ring (i = 0, 1, 2, ...) returns
\* i mod |values|, also after the counter has wrapped around, and a ring of
\* one value returns index 0 and leaves its counter alone.
C40_IndexIsCallCount ==
    (sched.pc = "built" /\ Len(sched.cycle) > 0) =>
        /\ \A i \in 1..IndexCalls :
            sched.order[i] = sched.cycle[((i - 1) % Len(sched.cycle)) + 1]
        /\ Len(sched.cycle) = 1 => sched.next = 0


====
